---- MODULE Spec2Model ----
(***************************************************************************)
(* Model of the two image tag rewriters of hack/:                          *)
(*   inject-release-images.py  (the earlier script, rewrites in place)     *)
(*   replace-images.py         (the later script: registry prefix check,   *)
(*                              organization swap, mirrored output)        *)
(*                                                                         *)
(* Strings are sequences of one-character strings, so that startswith,     *)
(* endswith and slicing are computed as Python computes them.  A decoded   *)
(* YAML value is a tagged record [t, v]: "str" (v the characters), "map"   *)
(* (v a function from keys to values), "seq" (v a sequence of values),     *)
(* "num" and "null".  Documents are trees: YAML aliases, which would make  *)
(* two places of a document the same Python object, are not modelled.      *)
(***************************************************************************)
EXTENDS Integers, Sequences, FiniteSets, TLC

VARIABLES
    script,     \* which of the two scripts runs: "inject" or "replace"
    version,    \* sys.argv[1]
    policy,     \* sys.argv[2]
    org,        \* sys.argv[4], or NoOrg when absent (replace-images.py only)
    outdir,     \* sys.argv[5], or NoDir when absent (replace-images.py only)
    pc,         \* position of the run
    image,      \* an image reference handed to translate_image
    result,     \* what translate_image returned for it
    docs,       \* the documents loaded from one file (yaml.load_all)
    out1,       \* newdocs after one pass of process_yaml's loop, or Fault
    out2,       \* newdocs after a second pass over out1
    disk0,      \* the file system when the script starts
    disk,       \* the file system now
    todo,       \* entries of os.walk not yet visited
    done,       \* entries whose processing completed
    faultAt     \* the entry and kind of the uncaught exception that ended the run, or NoFault

vars == <<script, version, policy, org, outdir, pc, image, result, docs, out1, out2,
          disk0, disk, todo, done, faultAt>>

----------------------------------------------------------------------------
(* Bounds of the model *)

\* longest middle part of a generated image reference
MaxMid == 2
\* deepest nesting of a generated document
MaxDepth == 2
\* most files in a generated directory tree
MaxFiles == 3
\* most documents in a generated file
MaxDocs == 2

----------------------------------------------------------------------------
(* Strings *)

prefix == <<"g","h","c","r",".","i","o","/","d","r","o","g","u","e","-","i","o","t">>
suffix == <<":","l","a","t","e","s","t">>
colon == <<":">>

\* None and "" are both false in `if org` / `if outdir`, and nothing else reads them
NoOrg == <<>>
NoDir == <<>>

\* s.startswith(p)
startswith(s, p) == Len(s) >= Len(p) /\ SubSeq(s, 1, Len(p)) = p

\* s.endswith(p)
endswith(s, p) == Len(s) >= Len(p) /\ SubSeq(s, Len(s) - Len(p) + 1, Len(s)) = p

\* s[n:] for n >= 0
slice_from(s, n) == IF n >= Len(s) THEN <<>> ELSE SubSeq(s, n + 1, Len(s))

\* s[:-n] for n > 0
slice_to_minus(s, n) == IF n >= Len(s) THEN <<>> ELSE SubSeq(s, 1, Len(s) - n)

----------------------------------------------------------------------------
(* inject-release-images.py *)

\* a slip that drops the early return and the endswith test
translate_image_inject_nocheck(original) ==
    slice_to_minus(original, Len(suffix)) \o colon \o version

translate_image_inject(original) ==
    IF ~endswith(original, suffix)
    THEN original
    ELSE IF endswith(original, suffix)
         THEN slice_to_minus(original, Len(suffix)) \o colon \o version
         ELSE original

----------------------------------------------------------------------------
(* replace-images.py *)

\* a slip that leaves the tag marker test out
is_drogue_image_prefix_only(img) ==
    IF ~startswith(img, prefix) THEN FALSE
    ELSE TRUE

is_drogue_image(img) ==
    IF ~startswith(img, prefix) THEN FALSE
    ELSE IF ~endswith(img, suffix) THEN FALSE
    ELSE TRUE

\* a slip that prepends the organization without cutting the prefix off
translate_image_keeps_prefix(original) ==
    LET o1 == IF org # NoOrg /\ startswith(original, prefix)
              THEN org \o original
              ELSE original
    IN  IF endswith(o1, suffix)
        THEN slice_to_minus(o1, Len(suffix)) \o colon \o version
        ELSE o1

translate_image(original) ==
    LET o1 == IF org # NoOrg /\ startswith(original, prefix)
              THEN org \o slice_from(original, Len(prefix))
              ELSE original
    IN  IF endswith(o1, suffix)
        THEN slice_to_minus(o1, Len(suffix)) \o colon \o version
        ELSE o1

----------------------------------------------------------------------------
(* Decoded YAML values *)

Str(s) == [t |-> "str", v |-> s]
Map(m) == [t |-> "map", v |-> m]
List(e) == [t |-> "seq", v |-> e]
Num == [t |-> "num", v |-> <<>>]
Null == [t |-> "null", v |-> <<>>]

\* the outcome of a call that raised (AttributeError: no startswith / endswith)
Fault == [t |-> "fault", v |-> <<>>]

IsFault(x) == x.t = "fault"

\* the mapping m with key k set to value x (node[k] = x)
SetKey(m, k, x) == [j \in DOMAIN m \cup {k} |-> IF j = k THEN x ELSE m[j]]

----------------------------------------------------------------------------
(* The tree walker of inject-release-images.py *)

\* the body of `if "image" in node:`; original.endswith raises when the
\* value is not a string
image_branch_inject(m) ==
    IF "image" \notin DOMAIN m THEN Map(m)
    ELSE IF m["image"].t # "str" THEN Fault
    ELSE Map(SetKey(SetKey(m, "image", Str(translate_image_inject(m["image"].v))),
                    "imagePullPolicy", Str(policy)))

RECURSIVE replace_images_inject(_)
replace_images_inject(node) ==
    IF node.t = "map"
    THEN LET n1 == image_branch_inject(node.v)
         IN  IF IsFault(n1) THEN Fault
             ELSE LET kids == [k \in DOMAIN n1.v |-> replace_images_inject(n1.v[k])]
                  IN  IF \E k \in DOMAIN kids : IsFault(kids[k]) THEN Fault
                      ELSE Map(kids)
    ELSE IF node.t = "seq"
    THEN LET kids == [i \in 1..Len(node.v) |-> replace_images_inject(node.v[i])]
         IN  IF \E i \in 1..Len(node.v) : IsFault(kids[i]) THEN Fault
             ELSE List(kids)
    ELSE node

----------------------------------------------------------------------------
(* The tree walker of replace-images.py *)

\* a slip that rewrites the image and forgets the pull policy
image_branch_no_policy(m) ==
    IF "image" \notin DOMAIN m THEN Map(m)
    ELSE IF m["image"].t # "str" THEN Fault
    ELSE IF is_drogue_image(m["image"].v)
         THEN Map(SetKey(m, "image", Str(translate_image(m["image"].v))))
         ELSE Map(m)

\* a slip that sets the pull policy on every mapping it visits
image_branch_policy_everywhere(m) ==
    IF "image" \in DOMAIN m /\ m["image"].t # "str" THEN Fault
    ELSE IF "image" \in DOMAIN m /\ is_drogue_image(m["image"].v)
         THEN Map(SetKey(SetKey(m, "image", Str(translate_image(m["image"].v))),
                         "imagePullPolicy", Str(policy)))
         ELSE Map(SetKey(m, "imagePullPolicy", Str(policy)))

\* the body of `if "image" in node:`; image.startswith raises when the value
\* is not a string
image_branch(m) ==
    IF "image" \notin DOMAIN m THEN Map(m)
    ELSE IF m["image"].t # "str" THEN Fault
    ELSE IF is_drogue_image(m["image"].v)
         THEN Map(SetKey(SetKey(m, "image", Str(translate_image(m["image"].v))),
                         "imagePullPolicy", Str(policy)))
         ELSE Map(m)

RECURSIVE replace_images(_)
replace_images(node) ==
    IF node.t = "map"
    THEN LET n1 == image_branch(node.v)
         IN  IF IsFault(n1) THEN Fault
             ELSE LET kids == [k \in DOMAIN n1.v |-> replace_images(n1.v[k])]
                  IN  IF \E k \in DOMAIN kids : IsFault(kids[k]) THEN Fault
                      ELSE Map(kids)
    ELSE IF node.t = "seq"
    THEN LET kids == [i \in 1..Len(node.v) |-> replace_images(node.v[i])]
         IN  IF \E i \in 1..Len(node.v) : IsFault(kids[i]) THEN Fault
             ELSE List(kids)
    ELSE node

\* the walker of the script that runs
walk_document(node) ==
    IF script = "inject" THEN replace_images_inject(node) ELSE replace_images(node)

\* translate_image of the script that runs
translate(original) ==
    IF script = "inject" THEN translate_image_inject(original)
    ELSE translate_image(original)

\* the loop of process_yaml: every loaded document is walked and appended
\* to newdocs in the order loaded; an exception leaves the loop
newdocs(loaded) ==
    LET nd == [i \in 1..Len(loaded) |-> walk_document(loaded[i])]
    IN  IF \E i \in 1..Len(loaded) : IsFault(nd[i]) THEN Fault ELSE List(nd)

----------------------------------------------------------------------------
(* Inputs *)

Scripts == {"inject", "replace"}

Always == <<"A","l","w","a","y","s">>
Never == <<"N","e","v","e","r">>
latest == <<"l","a","t","e","s","t">>
v1 == <<"1">>
quay == <<"q",".","i","o","/","o">>
ghcr == <<"g","h","c","r",".","i","o">>
slash_a == <<"/","a">>

\* "1", "latest", a version that itself ends in ":latest", and ""
Versions == {v1, latest, v1 \o suffix, <<>>}

\* none, another registry, one that starts with the prefix, a proper prefix
\* of the prefix, and the prefix itself
Orgs == {NoOrg, quay, prefix \o <<"x">>, ghcr, prefix}

OrgsOf(s) == IF s = "inject" THEN {NoOrg} ELSE Orgs

Policies == {Always, Never}

MidChars == {"/", "a", ":"}

RECURSIVE StringsUpTo(_)
StringsUpTo(n) ==
    IF n = 0 THEN {<<>>}
    ELSE LET shorter == StringsUpTo(n - 1)
         IN  shorter \cup {Append(s, c) : s \in shorter, c \in MidChars}

Heads == {<<>>, prefix, SubSeq(prefix, 1, Len(prefix) - 1), <<"q">>}
Tails == {<<>>, suffix, SubSeq(suffix, 1, Len(suffix) - 1), latest, suffix \o <<"x">>,
          colon \o v1}

Images == {h \o m \o tl : h \in Heads, m \in StringsUpTo(MaxMid), tl \in Tails}

\* image references used inside documents: one in the target form, one with
\* the tag marker under another registry, one under the prefix with a pinned tag;
\* an "image" that is no string is a number
match == prefix \o slash_a \o suffix
foreign == quay \o slash_a \o suffix
pinned == prefix \o slash_a \o colon \o v1
\* one in the target form whose repository repeats the end of the prefix
deep == prefix \o slice_from(prefix, Len(ghcr)) \o slash_a \o suffix

Absent == [t |-> "absent", v |-> <<>>]

\* the mapping with the given values under the four keys the generated
\* documents use, a key left out where its value is Absent
Fields(img, pol, name, spec) ==
    LET all == [image |-> img, imagePullPolicy |-> pol, name |-> name, spec |-> spec]
    IN  Map([k \in {j \in DOMAIN all : all[j].t # "absent"} |-> all[k]])

LeafImages == {Absent, Str(match), Str(foreign), Str(pinned), Str(deep), Num}
WrapImages == {Absent, Str(match), Str(foreign), Str(pinned)}
OldPolicies == {Absent, Str(Never)}

LeafMaps ==
    {Fields(i, p, n, Absent) : i \in LeafImages, p \in OldPolicies,
                               n \in {Absent, Str(match)}}

\* documents nested at most n levels below their root
RECURSIVE DocsOfDepth(_)
DocsOfDepth(n) ==
    IF n = 0 THEN LeafMaps \cup {Str(match), Num}
    ELSE LET below == DocsOfDepth(n - 1)
         IN  below
             \cup {Fields(i, p, Absent, c) : i \in WrapImages, p \in OldPolicies,
                                             c \in below}
             \cup {Fields(c, Absent, Absent, Absent) :
                       c \in {b \in below : b.t \in {"map", "seq"}}}
             \cup {List(<<Fields(Str(match), Absent, Absent, Absent), c>>) : c \in below}

Docs == DocsOfDepth(MaxDepth)

\* documents that open a file of several documents
TopDocs == {Fields(Str(match), Absent, Absent, Absent),
            Fields(Absent, Absent, Str(match), Absent),
            List(<<Num>>)}

RECURSIVE ListsUpTo(_, _)
ListsUpTo(S, n) ==
    IF n = 0 THEN {<<>>}
    ELSE LET shorter == ListsUpTo(S, n - 1)
         IN  shorter \cup {Append(l, d) : l \in shorter, d \in S}

DocLists == {<<d>> : d \in Docs} \cup ListsUpTo(TopDocs, MaxDocs)

DocVersions == {v1, latest, v1 \o suffix}
DocOrgs == {NoOrg, quay, prefix \o <<"x">>, ghcr}
DocOrgsOf(s) == IF s = "inject" THEN {NoOrg} ELSE DocOrgs

NoEntry == [root |-> <<>>, name |-> <<>>]
NoFault == [e |-> NoEntry, kind |-> "none"]
EmptyDisk == <<>>

----------------------------------------------------------------------------
(* The rewrite rule on its own: translate_image applied to an image string, *)
(* then the walker applied to a one-key mapping that holds it               *)

InitImage ==
    /\ script \in Scripts
    /\ version \in Versions
    /\ policy \in Policies
    /\ org \in OrgsOf(script)
    /\ outdir = NoDir
    /\ pc = "start"
    /\ image \in Images
    /\ result = <<>>
    /\ docs = <<Map([k \in {"image"} |-> Str(image)])>>
    /\ out1 = Null
    /\ out2 = Null
    /\ disk0 = EmptyDisk
    /\ disk = EmptyDisk
    /\ todo = {}
    /\ done = {}
    /\ faultAt = NoFault

Translate ==
    /\ pc = "start"
    /\ result' = translate(image)
    /\ pc' = "translated"
    /\ UNCHANGED <<script, version, policy, org, outdir, image, docs, out1, out2,
                   disk0, disk, todo, done, faultAt>>

RewriteNode ==
    /\ pc = "translated"
    /\ out1' = newdocs(docs)
    /\ pc' = "rewritten"
    /\ UNCHANGED <<script, version, policy, org, outdir, image, result, docs, out2,
                   disk0, disk, todo, done, faultAt>>

NextImage == Translate \/ RewriteNode

SpecImage == InitImage /\ [][NextImage]_vars

----------------------------------------------------------------------------
(* Claims about the rewrite rule, checked under SpecImage *)

\* the part of an image between its first m and its last n characters
Middle(s, m, n) == SubSeq(s, m + 1, Len(s) - n)

C2_TagAndPrefixRewritten ==
    /\ (pc # "start" /\ script = "replace"
            /\ startswith(image, prefix) /\ endswith(image, suffix))
          => result = (IF org # NoOrg THEN org ELSE prefix)
                        \o Middle(image, Len(prefix), Len(suffix))
                        \o colon \o version
    /\ (pc # "start" /\ script = "inject" /\ endswith(image, suffix))
          => result = Middle(image, 0, Len(suffix)) \o colon \o version

C2_Witness ==
    /\ pc = "translated"
    /\ script = "replace"
    /\ org = quay
    /\ version = v1
    /\ image = prefix \o slash_a \o suffix
    /\ result = quay \o slash_a \o colon \o v1

----------------------------------------------------------------------------
(* The tree walker on the documents of one file, run once and then again    *)
(* over its own output                                                      *)

InitDoc ==
    /\ script \in Scripts
    /\ version \in DocVersions
    /\ policy = Always
    /\ org \in DocOrgsOf(script)
    /\ outdir = NoDir
    /\ pc = "start"
    /\ image = <<>>
    /\ result = <<>>
    /\ docs \in DocLists
    /\ out1 = Null
    /\ out2 = Null
    /\ disk0 = EmptyDisk
    /\ disk = EmptyDisk
    /\ todo = {}
    /\ done = {}
    /\ faultAt = NoFault

Walk ==
    /\ pc = "start"
    /\ ~IsFault(newdocs(docs))
    /\ out1' = newdocs(docs)
    /\ pc' = "once"
    /\ UNCHANGED <<script, version, policy, org, outdir, image, result, docs, out2,
                   disk0, disk, todo, done, faultAt>>

WalkFault ==
    /\ pc = "start"
    /\ IsFault(newdocs(docs))
    /\ out1' = Fault
    /\ pc' = "fault"
    /\ UNCHANGED <<script, version, policy, org, outdir, image, result, docs, out2,
                   disk0, disk, todo, done, faultAt>>

WalkAgain ==
    /\ pc = "once"
    /\ out2' = newdocs(out1.v)
    /\ pc' = "twice"
    /\ UNCHANGED <<script, version, policy, org, outdir, image, result, docs, out1,
                   disk0, disk, todo, done, faultAt>>

NextDoc == Walk \/ WalkFault \/ WalkAgain

SpecDoc == InitDoc /\ [][NextDoc]_vars

----------------------------------------------------------------------------
(* Claims about the tree walker, checked under SpecDoc *)

Key(k) == [k |-> k, i |-> 0]
Idx(i) == [k |-> "", i |-> i]

\* the paths from a value to the mappings in it
RECURSIVE MapPaths(_)
MapPaths(node) ==
    IF node.t = "map"
    THEN {<<>>} \cup UNION {{<<Key(k)>> \o q : q \in MapPaths(node.v[k])} :
                               k \in DOMAIN node.v}
    ELSE IF node.t = "seq"
    THEN UNION {{<<Idx(i)>> \o q : q \in MapPaths(node.v[i])} : i \in 1..Len(node.v)}
    ELSE {}

RECURSIVE At(_, _)
At(node, path) ==
    IF path = <<>> THEN node
    ELSE At(IF node.t = "map" THEN node.v[Head(path).k] ELSE node.v[Head(path).i],
            Tail(path))

\* the form of image reference the running script rewrites
TargetForm(s) ==
    IF script = "inject" THEN endswith(s, suffix)
    ELSE startswith(s, prefix) /\ endswith(s, suffix)

HasTargetImage(m) ==
    "image" \in DOMAIN m /\ m["image"].t = "str" /\ TargetForm(m["image"].v)

NoImageKey(node) == \A q \in MapPaths(node) : "image" \notin DOMAIN At(node, q).v

Loaded == List(docs)

\* C3: after the walk, every mapping at any depth whose "image" was
\* rewritten has "imagePullPolicy" equal to the configured policy.
C3_PolicySetWhereRewritten ==
    pc \in {"once", "twice"} =>
        \A q \in MapPaths(Loaded) :
            HasTargetImage(At(Loaded, q).v) =>
                /\ "imagePullPolicy" \in DOMAIN At(out1, q).v
                /\ At(out1, q).v["imagePullPolicy"] = Str(policy)

C3_Witness ==
    /\ pc = "once"
    /\ docs = <<Fields(Str(match), Str(Never), Absent,
                       List(<<Fields(Str(match), Absent, Absent, Absent),
                              Fields(Str(match), Str(Never), Absent, Absent)>>))>>
    /\ out1.v[1].v["imagePullPolicy"] = Str(Always)
    /\ out1.v[1].v["spec"].v[1].v["imagePullPolicy"] = Str(Always)
    /\ out1.v[1].v["spec"].v[2].v["imagePullPolicy"] = Str(Always)

\* what a mapping holds under key k, Absent when it has no such key
Get(m, k) == IF k \in DOMAIN m THEN m[k] ELSE Absent

OtherKeys(m) == DOMAIN m \ {"image", "imagePullPolicy"}

\* C4 as stated: in both scripts a mapping whose "image" value is not in the
\* target form keeps its "image" and its "imagePullPolicy" (present or
\* absent) as they were, and no mapping gains, loses or changes another key.
C4_Original ==
    pc \in {"once", "twice"} =>
        \A q \in MapPaths(Loaded) :
            LET before == At(Loaded, q).v
                after == At(out1, q).v
            IN  /\ ~HasTargetImage(before) =>
                      /\ Get(after, "image") = Get(before, "image")
                      /\ Get(after, "imagePullPolicy") = Get(before, "imagePullPolicy")
                /\ OtherKeys(after) = OtherKeys(before)
                /\ \A k \in OtherKeys(before) :
                      before[k].t \notin {"map", "seq"} => after[k] = before[k]

\* C4 for replace-images.py alone, where it holds
C4_InReplaceImages == script = "replace" => C4_Original

\* C5: a file whose documents hold no "image" key at any depth is walked
\* without fault and its documents come out equal to the input, in the same
\* number and order; any file's newdocs has as many documents as were loaded.
C5_RoundTripWithoutImage ==
    /\ NoImageKey(Loaded) => pc # "fault"
    /\ (pc \in {"once", "twice"} /\ NoImageKey(Loaded)) => out1 = Loaded
    /\ pc \in {"once", "twice"} => Len(out1.v) = Len(docs)

C5_Witness ==
    /\ pc = "once"
    /\ docs = <<Fields(Absent, Absent, Str(match), Absent), List(<<Num>>)>>
    /\ out1 = Loaded

\* C9 as stated: for every document and every version, policy and
\* organization, a second walk changes nothing.
C9_Original == pc = "twice" => out2 = out1

\* C9 amended: a second walk over the output of a walk that completed
\* changes nothing, provided the version does not end with ":latest" and,
\* when the version is "latest", the organization is absent, is the prefix
\* itself, or is a string that neither starts with the prefix nor is a
\* leading part of it.
C9_IdempotentUnlessTagReappears ==
    (/\ pc = "twice"
     /\ ~endswith(version, suffix)
     /\ version = latest =>
           \/ org = NoOrg
           \/ org = prefix
           \/ ~startswith(org, prefix) /\ ~startswith(prefix, org))
        => out2 = out1

C9_Witness ==
    /\ pc = "twice"
    /\ script = "replace"
    /\ version = latest
    /\ org = quay
    /\ docs = <<Fields(Str(match), Absent, Absent, Absent)>>
    /\ out1.v[1].v["image"] = Str(quay \o slash_a \o suffix)
    /\ out2 = out1

\* C10: replace_images completes without fault on every decoded document,
\* and an "image" value that is not a string is left as it was.
C10_Original ==
    /\ pc # "fault"
    /\ pc \in {"once", "twice"} =>
          \A q \in MapPaths(Loaded) :
              LET before == At(Loaded, q).v
              IN  ("image" \in DOMAIN before /\ before["image"].t # "str")
                      => Get(At(out1, q).v, "image").t = before["image"].t

----------------------------------------------------------------------------
(* Files.  A path is a sequence of names, a name a sequence of characters.  *)
(* A file's content is what yaml.load_all makes of it (List of documents,   *)
(* or Malformed) together with its layout: "hand" for text as somebody      *)
(* wrote it, "dump" for text exactly as yaml.dump_all emits it, "partial"   *)
(* for a file whose writing was cut short.                                  *)

yamldir == << <<"i","n">> >>
OutRoot == << <<"o","u","t">> >>
dot_yaml == <<".","y","a","m","l">>
a_yaml == <<"a">> \o dot_yaml
r_md == <<"r",".","m","d">>
bare_yaml == <<"y","a","m","l">>

Malformed == [t |-> "malformed", v |-> <<>>]
Hand(y) == [raw |-> "hand", yaml |-> y]
Partial == [raw |-> "partial", yaml |-> Malformed]

Put(d, path, content) ==
    [q \in DOMAIN d \cup {path} |-> IF q = path THEN content ELSE d[q]]

\* yaml.load_all
load_all(content) == content.yaml

\* yaml.dump_all
dump_all(nd) == [raw |-> "dump", yaml |-> nd]

\* os.path.join(p_root, p_name)
join(p_root, p_name) == Append(p_root, p_name)

\* os.path.relpath(path, start) for a path under start
relpath(path, start) == slice_from(path, Len(start))

\* a slip that mirrors by file name alone
to_files_flat(p_root, p_name) ==
    LET file_in == join(p_root, p_name)
    IN  IF outdir # NoDir
        THEN [file_in |-> file_in, file_out |-> join(outdir, p_name)]
        ELSE [file_in |-> file_in, file_out |-> file_in]

to_files(p_root, p_name) ==
    LET file_in == join(p_root, p_name)
    IN  IF outdir # NoDir
        THEN [file_in |-> file_in, file_out |-> outdir \o relpath(file_in, yamldir)]
        ELSE [file_in |-> file_in, file_out |-> file_in]

\* the input and output file of an entry in the script that runs:
\* inject-release-images.py writes the file it read
files_of(e) ==
    IF script = "inject"
    THEN [file_in |-> join(e.root, e.name), file_out |-> join(e.root, e.name)]
    ELSE to_files(e.root, e.name)

\* process_yaml: the disk after it, or the exception it raised
process_yaml(d, file_in, file_out) ==
    LET loaded == load_all(d[file_in])
    IN  IF loaded.t = "malformed" THEN [kind |-> "parse", disk |-> d]
        ELSE LET nd == newdocs(loaded.v)
             IN  IF IsFault(nd) THEN [kind |-> "attribute", disk |-> d]
                 ELSE [kind |-> "none", disk |-> Put(d, file_out, dump_all(nd))]

\* whether the loop hands the entry to process_yaml: replace-images.py looks
\* at the name, inject-release-images.py takes every file
is_yaml_entry(e) == script = "inject" \/ endswith(e.name, dot_yaml)

\* the entries os.walk yields for the files of a tree
walk_entries(d) ==
    {[root |-> SubSeq(path, 1, Len(path) - 1), name |-> path[Len(path)]] :
        path \in DOMAIN d}

----------------------------------------------------------------------------
(* Directory trees *)

Contents ==
    {Hand(List(<<Fields(Str(match), Absent, Absent, Absent)>>)),
     Hand(List(<<Fields(Absent, Absent, Str(match), Absent),
                 List(<<Fields(Str(pinned), Str(Never), Absent, Absent)>>)>>)),
     Hand(List(<<Fields(Num, Absent, Absent, Absent)>>)),
     Hand(Malformed)}

CandidatePaths ==
    {yamldir \o dir \o <<n>> : dir \in {<<>>, << <<"d">> >>},
                               n \in {a_yaml, r_md, bare_yaml}}

Trees ==
    UNION {[S -> Contents] :
              S \in {T \in SUBSET CandidatePaths : Cardinality(T) <= MaxFiles}}

----------------------------------------------------------------------------
(* A run of either script over a directory tree *)

InitRun ==
    /\ script \in Scripts
    /\ version = v1
    /\ policy = Always
    /\ org \in (IF script = "inject" THEN {NoOrg} ELSE {NoOrg, quay})
    /\ outdir \in (IF script = "inject" THEN {NoDir} ELSE {NoDir, OutRoot})
    /\ pc = "walk"
    /\ image = <<>>
    /\ result = <<>>
    /\ docs = <<>>
    /\ out1 = Null
    /\ out2 = Null
    /\ disk0 \in Trees
    /\ disk = disk0
    /\ todo = walk_entries(disk0)
    /\ done = {}
    /\ faultAt = NoFault

\* a slip that catches the exception and goes on with the next entry
Raise_swallowed(e, kind) ==
    /\ pc' = "walk"
    /\ faultAt' = [e |-> e, kind |-> kind]
    /\ todo' = todo \ {e}
    /\ UNCHANGED done

\* an uncaught exception ends the interpreter
Raise(e, kind) ==
    /\ pc' = "fault"
    /\ faultAt' = [e |-> e, kind |-> kind]
    /\ UNCHANGED <<todo, done>>

Complete(e) ==
    /\ todo' = todo \ {e}
    /\ done' = done \cup {e}
    /\ UNCHANGED <<pc, faultAt>>

config == <<script, version, policy, org, outdir, image, result, docs, out1, out2, disk0>>

ProcessYaml(e) ==
    /\ pc = "walk"
    /\ e \in todo
    /\ is_yaml_entry(e)
    /\ LET f == files_of(e)
           r == process_yaml(disk, f.file_in, f.file_out)
       IN  /\ r.kind = "none"
           /\ disk' = r.disk
    /\ Complete(e)
    /\ UNCHANGED config

ProcessYamlFault(e) ==
    /\ pc = "walk"
    /\ e \in todo
    /\ is_yaml_entry(e)
    /\ LET f == files_of(e)
           r == process_yaml(disk, f.file_in, f.file_out)
       IN  /\ r.kind # "none"
           /\ disk' = r.disk
           /\ Raise(e, r.kind)
    /\ UNCHANGED config

\* copy2(in_file, out_file) of two different files
CopyFile(e) ==
    /\ pc = "walk"
    /\ e \in todo
    /\ ~is_yaml_entry(e)
    /\ LET f == files_of(e)
       IN  /\ f.file_in # f.file_out
           /\ disk' = Put(disk, f.file_out, disk[f.file_in])
    /\ Complete(e)
    /\ UNCHANGED config

\* copy2(in_file, out_file) of a file onto itself raises shutil.SameFileError
CopySameFile(e) ==
    /\ pc = "walk"
    /\ e \in todo
    /\ ~is_yaml_entry(e)
    /\ LET f == files_of(e)
       IN  f.file_in = f.file_out
    /\ Raise(e, "samefile")
    /\ UNCHANGED disk
    /\ UNCHANGED config

\* open, read or write fails (permissions, disk full): the output file is
\* untouched, or was opened for writing and is left cut short
IOFault(e, cut) ==
    /\ pc = "walk"
    /\ e \in todo
    /\ is_yaml_entry(e) \/ files_of(e).file_in # files_of(e).file_out
    /\ disk' = IF cut THEN Put(disk, files_of(e).file_out, Partial) ELSE disk
    /\ Raise(e, "io")
    /\ UNCHANGED config

Finish ==
    /\ pc = "walk"
    /\ todo = {}
    /\ pc' = "done"
    /\ UNCHANGED <<disk, todo, done, faultAt>>
    /\ UNCHANGED config

Next ==
    \/ \E e \in todo : ProcessYaml(e)
    \/ \E e \in todo : ProcessYamlFault(e)
    \/ \E e \in todo : CopyFile(e)
    \/ \E e \in todo : CopySameFile(e)
    \/ \E e \in todo, cut \in BOOLEAN : IOFault(e, cut)
    \/ Finish

Spec == InitRun /\ [][Next]_vars

----------------------------------------------------------------------------
(* Claims about a run, checked under Spec.  The output directory is new:    *)
(* the tree at the start holds the files under yamldir and nothing else.    *)

Under(d, root) == {path \in DOMAIN d : startswith(path, root)}

\* the paths of the files of d under root, relative to root
RelPaths(d, root) == {SubSeq(path, Len(root) + 1, Len(path)) : path \in Under(d, root)}

NameOf(path) == path[Len(path)]

\* what process_yaml is to write for the file at path: the walked documents,
\* in the layout of yaml.dump_all
Rewritten(path) == [raw |-> "dump", yaml |-> newdocs(disk0[path].yaml.v)]

C7_FailStop ==
    faultAt # NoFault =>
        /\ pc = "fault"
        /\ ~ENABLED Next
        /\ faultAt.e \in todo
        /\ \A e \in todo \ {faultAt.e} :
              LET f == files_of(e)
              IN  /\ disk[f.file_in] = disk0[f.file_in]
                  /\ f.file_out # f.file_in => f.file_out \notin DOMAIN disk
        /\ \A e \in done :
              LET f == files_of(e)
              IN  /\ f.file_out \in DOMAIN disk
                  /\ disk[f.file_out] = IF is_yaml_entry(e)
                                        THEN Rewritten(f.file_in)
                                        ELSE disk0[f.file_in]

C7_Witness ==
    /\ pc = "fault"
    /\ faultAt.kind = "parse"
    /\ Cardinality(done) = 1
    /\ Cardinality(todo) = 2
    /\ \E e \in done : disk[files_of(e).file_out].raw = "dump"

\* C8: replace-images.py run in place over a tree that holds a file whose
\* name does not end in ".yaml" skips that file, does not fault on it, and
\* rewrites every ".yaml" file.
C8_Original ==
    (script = "replace" /\ outdir = NoDir) =>
        /\ faultAt # NoFault => endswith(faultAt.e.name, dot_yaml)
        /\ pc = "done" =>
              \A path \in DOMAIN disk0 :
                  disk[path] = IF endswith(NameOf(path), dot_yaml)
                               THEN Rewritten(path)
                               ELSE disk0[path]

====
